---- MODULE Spec2Model ----
(***************************************************************************)
(* Heart Disease Prediction System - Flask backend (backend/app.py).       *)
(*                                                                         *)
(* The model covers the /api/predict handler and get_recommendation:       *)
(* presence validation, float() coercion, scaling, inference, the          *)
(* probability-to-tier mapping, the recommendation rules and the composed  *)
(* response.                                                               *)
(*                                                                         *)
(* Numbers.  A JSON number is kept in tenths (605 is 60.5).  A probability *)
(* is kept as a numerator over ScoreDen (33 over 100 is 0.33); a           *)
(* comparison with a literal c/100 of the source is the exact rational     *)
(* comparison n * 100 < c * ScoreDen.  Floating-point rounding inside the  *)
(* classifier is not modelled.                                             *)
(*                                                                         *)
(* Text.  A JSON string is a sequence of one-character strings; float()    *)
(* and int() are Python's parsers for surrounding blanks, a sign, decimal  *)
(* digits and a decimal point (no exponent, underscore, "inf" or "nan").   *)
(*                                                                         *)
(* Specifications.  Spec serves one request at a time with predict as one  *)
(* step.  SpecCalls applies get_recommendation and the risk-level branch   *)
(* to drawn arguments.  SpecConcurrent interleaves the statements of       *)
(* predict over several requests.                                          *)
(***************************************************************************)
EXTENDS Integers, Sequences, FiniteSets, TLC

VARIABLES
    model,      \* the unpickled classifier (module global, line 35)
    scaler,     \* the unpickled scaler (module global, line 38)
    phase,      \* sequential handler: "idle" or "done"
    data,       \* sequential handler: the request body of the last request
    response,   \* sequential handler: the (body, status) pair returned
    stages,     \* sequential handler: the stages the last request executed
    recIn,      \* arguments of the last direct get_recommendation call
    recOut,     \* its outcome
    pc,         \* concurrent requests: position of each request in predict
    req,        \* concurrent requests: the body each request carries
    locals,     \* concurrent requests: the local variables of each call frame
    out         \* concurrent requests: the response of each request

vars == <<model, scaler, phase, data, response, stages, recIn, recOut,
          pc, req, locals, out>>

----------------------------------------------------------------------------
(* Bounds of the model *)

\* Probabilities are multiples of 1 / ScoreDen.
ScoreDen == 100

\* Probabilities within ScoreProbe / ScoreDen of a threshold are loaded
\* into the classifier stubs of the request specifications.
ScoreProbe == 1

\* Number of requests in flight in the concurrent specification.
NumRequests == 2

----------------------------------------------------------------------------
(* Program constants *)

\* Feature names, in the order the scaler and the model were fitted on.
FEATURE_NAMES ==
    <<"age", "sex", "cp", "trestbps", "chol", "fbs", "restecg", "thalach",
      "exang", "oldpeak", "slope", "ca", "thal">>

FeatureSet == {FEATURE_NAMES[i] : i \in 1..Len(FEATURE_NAMES)}

\* risk_score < 0.33, in hundredths
LowBelow == 33
\* risk_score < 0.66, in hundredths
ModerateBelow == 66
\* risk_score > 0.7, in hundredths
UrgentAbove == 70
\* risk_score > 0.5, in hundredths
ScheduleAbove == 50
\* float(probability[1]) * 100
Percent == 100

AgeLimit == 60
CholLimit == 240
BpLimit == 140
HeartRateLimit == 100
AnginaYes == 1

AgeAdvice ==
    "Your age is a significant risk factor. Regular medical checkups are essential."
CholAdvice ==
    "Your cholesterol level is high. Consider dietary changes and consult your doctor."
BpAdvice ==
    "Your blood pressure is elevated. Monitor regularly and reduce sodium intake."
HeartRateAdvice ==
    "Your maximum heart rate is low. Increase physical activity gradually."
AnginaAdvice ==
    "You experience exercise-induced angina. Consult a cardiologist before strenuous activity."
UrgentMessage ==
    "URGENT: Seek immediate medical consultation from a cardiologist."
ScheduleMessage ==
    "Schedule a detailed cardiac evaluation with your physician."
MaintainMessage ==
    "Maintain healthy lifestyle habits and annual checkups."

----------------------------------------------------------------------------
(* JSON values *)

Digits == {"0", "1", "2", "3", "4", "5", "6", "7", "8", "9"}

DigitVal(c) ==
    CASE c = "0" -> 0 [] c = "1" -> 1 [] c = "2" -> 2 [] c = "3" -> 3
      [] c = "4" -> 4 [] c = "5" -> 5 [] c = "6" -> 6 [] c = "7" -> 7
      [] c = "8" -> 8 [] c = "9" -> 9

\* A JSON number with value t / 10.
Num(t) == [kind |-> "num", tenths |-> t, text |-> <<>>]
\* A JSON string.
Str(s) == [kind |-> "str", tenths |-> 0, text |-> s]
\* JSON null (None).
Null == [kind |-> "null", tenths |-> 0, text |-> <<>>]

\* An exception, as str(e) shows it: the message and the quoted argument.
Raise(msg, arg) == [ok |-> FALSE, val |-> 0, msg |-> msg, arg |-> arg]
Return(v) == [ok |-> TRUE, val |-> v, msg |-> "", arg |-> <<>>]

\* str.strip() as float() and int() apply it to their argument.
RECURSIVE LStrip(_)
LStrip(s) == IF s # <<>> /\ Head(s) = " " THEN LStrip(Tail(s)) ELSE s

RECURSIVE RStrip(_)
RStrip(s) ==
    IF s # <<>> /\ s[Len(s)] = " " THEN RStrip(SubSeq(s, 1, Len(s) - 1)) ELSE s

Strip(s) == RStrip(LStrip(s))

AllDigits(s) == \A i \in 1..Len(s) : s[i] \in Digits

RECURSIVE DigitsValue(_)
DigitsValue(s) ==
    IF s = <<>> THEN 0
    ELSE DigitsValue(SubSeq(s, 1, Len(s) - 1)) * 10 + DigitVal(s[Len(s)])

HasSign(s) == s # <<>> /\ Head(s) \in {"-", "+"}
Unsigned(s) == IF HasSign(s) THEN Tail(s) ELSE s
Signed(s, n) == IF HasSign(s) /\ Head(s) = "-" THEN -n ELSE n

\* Position of the first "." of s, or Len(s) + 1.
PointAt(s) ==
    IF \E i \in 1..Len(s) : s[i] = "."
    THEN CHOOSE i \in 1..Len(s) : s[i] = "." /\ \A j \in 1..(i - 1) : s[j] # "."
    ELSE Len(s) + 1

\* float() of text: [sign] digits [. [digits]] or [sign] . digits, in tenths
\* (the fraction is kept to its first digit).
ParseFloat(s) ==
    LET t == Strip(s)
        u == Unsigned(t)
        k == PointAt(u)
        whole == SubSeq(u, 1, k - 1)
        frac == SubSeq(u, k + 1, Len(u))
        wellFormed == /\ AllDigits(whole)
                      /\ AllDigits(frac)
                      /\ Len(whole) + Len(frac) > 0
        first == IF frac = <<>> THEN 0 ELSE DigitVal(frac[1])
    IN  IF wellFormed
        THEN Return(Signed(t, DigitsValue(whole) * 10 + first))
        ELSE Raise("could not convert string to float: ", s)

\* int() of text: [sign] digits, base 10.
ParseInt(s) ==
    LET t == Strip(s)
        u == Unsigned(t)
    IN  IF u # <<>> /\ AllDigits(u)
        THEN Return(Signed(t, DigitsValue(u)))
        ELSE Raise("invalid literal for int() with base 10: ", s)

\* float(v): the value in tenths.
float(v) ==
    CASE v.kind = "num" -> Return(v.tenths)
      [] v.kind = "str" -> ParseFloat(v.text)
      [] OTHER ->
           Raise("float() argument must be a string or a real number, not 'NoneType'",
                 <<>>)

\* Truncation toward zero of t / 10.
Trunc(t) == IF t >= 0 THEN t \div 10 ELSE -((-t) \div 10)

\* int(v): an integer.
int(v) ==
    CASE v.kind = "num" -> Return(Trunc(v.tenths))
      [] v.kind = "str" -> ParseInt(v.text)
      [] OTHER ->
           Raise("int() argument must be a string, a bytes-like object or a real number, not 'NoneType'",
                 <<>>)

\* data.get(key, 0)
Get(d, key) == IF key \in DOMAIN d THEN d[key] ELSE Num(0)

----------------------------------------------------------------------------
(* Risk Classifier: lines 81-91 of predict *)

\* risk_score < c / 100 and risk_score > c / 100, risk_score = n / ScoreDen
Below(n, c) == n * 100 < c * ScoreDen
Above(n, c) == n * 100 > c * ScoreDen

RiskTierInclusive(risk_score) ==
    IF risk_score * 100 <= LowBelow * ScoreDen
    THEN [risk_level |-> "LOW RISK", color |-> "green"]
    ELSE IF risk_score * 100 <= ModerateBelow * ScoreDen
         THEN [risk_level |-> "MODERATE RISK", color |-> "orange"]
         ELSE [risk_level |-> "HIGH RISK", color |-> "red"]

RiskTier(risk_score) ==
    IF Below(risk_score, LowBelow)
    THEN [risk_level |-> "LOW RISK", color |-> "green"]
    ELSE IF Below(risk_score, ModerateBelow)
         THEN [risk_level |-> "MODERATE RISK", color |-> "orange"]
         ELSE [risk_level |-> "HIGH RISK", color |-> "red"]

----------------------------------------------------------------------------
(* Recommendation Engine *)

FinalMessageInclusive(risk_score) ==
    IF risk_score * 100 >= UrgentAbove * ScoreDen THEN UrgentMessage
    ELSE IF risk_score * 100 >= ScheduleAbove * ScoreDen THEN ScheduleMessage
         ELSE MaintainMessage

\* The if / elif / else on risk_score that closes get_recommendation.
FinalMessage(risk_score) ==
    IF Above(risk_score, UrgentAbove) THEN UrgentMessage
    ELSE IF Above(risk_score, ScheduleAbove) THEN ScheduleMessage
         ELSE MaintainMessage

\* The five rules, each on int(data.get(field, 0)).
AgeRule(n) == n > AgeLimit
CholRule(n) == n > CholLimit
BpRule(n) == n > BpLimit
HeartRateRule(n) == n < HeartRateLimit
AnginaRule(n) == n = AnginaYes

Advise(cond, text) == IF cond THEN <<text>> ELSE <<>>

\* get_recommendation(data, risk_score): the list, or the exception of the
\* first int() that fails.
get_recommendation(d, risk_score) ==
    LET age == int(Get(d, "age"))
        chol == int(Get(d, "chol"))
        trestbps == int(Get(d, "trestbps"))
        thalach == int(Get(d, "thalach"))
        exang == int(Get(d, "exang"))
    IN  IF ~age.ok THEN Raise(age.msg, age.arg)
        ELSE IF ~chol.ok THEN Raise(chol.msg, chol.arg)
        ELSE IF ~trestbps.ok THEN Raise(trestbps.msg, trestbps.arg)
        ELSE IF ~thalach.ok THEN Raise(thalach.msg, thalach.arg)
        ELSE IF ~exang.ok THEN Raise(exang.msg, exang.arg)
        ELSE [ok |-> TRUE,
              val |-> Advise(AgeRule(age.val), AgeAdvice)
                        \o Advise(CholRule(chol.val), CholAdvice)
                        \o Advise(BpRule(trestbps.val), BpAdvice)
                        \o Advise(HeartRateRule(thalach.val), HeartRateAdvice)
                        \o Advise(AnginaRule(exang.val), AnginaAdvice)
                        \o <<FinalMessage(risk_score)>>,
              msg |-> "", arg |-> <<>>]

----------------------------------------------------------------------------
(* The unpickled artifacts, as deterministic stubs *)

\* scaler.transform(features): the scaler subtracts its fitted mean, or
\* rejects the vector.
transform(scl, x) ==
    IF scl.raises THEN Raise(scl.msg, <<>>)
    ELSE Return([i \in DOMAIN x |-> x[i] - scl.mean])

\* model.predict_proba(features_scaled)[0]: the pair <<p0, p1>>.
predict_proba(mdl, x) ==
    IF mdl.raises THEN Raise(mdl.msg, <<>>)
    ELSE Return(<<ScoreDen - mdl.p1, mdl.p1>>)

\* model.predict(features_scaled)[0]: the class of the larger probability.
model_predict(mdl, x) ==
    IF mdl.raises THEN Raise(mdl.msg, <<>>)
    ELSE Return(IF mdl.p1 > ScoreDen - mdl.p1 THEN 1 ELSE 0)

----------------------------------------------------------------------------
(* The /api/predict handler *)

ErrorBody(msg, arg) == [error |-> [msg |-> msg, arg |-> arg]]

Reply(status, body, st) == [status |-> status, body |-> body, stages |-> st]

AllPresentAny(d) == \E i \in 1..Len(FEATURE_NAMES) : FEATURE_NAMES[i] \in DOMAIN d

\* all(key in data for key in FEATURE_NAMES)
AllPresent(d) == \A i \in 1..Len(FEATURE_NAMES) : FEATURE_NAMES[i] \in DOMAIN d

\* float(data[feature]); data[feature] raises KeyError on an absent key.
Lookup(d, key) ==
    IF key \in DOMAIN d THEN float(d[key]) ELSE Raise("KeyError: ", <<key>>)

\* [float(data[feature]) for feature in FEATURE_NAMES], each outcome
Coerce(d) == [i \in 1..Len(FEATURE_NAMES) |-> Lookup(d, FEATURE_NAMES[i])]

\* The comprehension stops at the first float() that raises.
FirstFailure(c) ==
    CHOOSE i \in DOMAIN c : ~c[i].ok /\ \A j \in 1..(i - 1) : c[j].ok

Features(c) == [i \in DOMAIN c |-> c[i].val]

\* The result dictionary of lines 93-101.
Payload(prediction, probability, tier, recommendation) ==
    [prediction |-> prediction,
     risk_probability |-> probability[2],
     disease_probability |-> probability[2] * Percent,
     no_disease_probability |-> probability[1] * Percent,
     risk_level |-> tier.risk_level,
     color |-> tier.color,
     recommendation |-> recommendation]

\* Compose, with a failed recommendation replaced by an empty list.
ComposeLenient(d, prediction, probability, st) ==
    LET risk_score == probability[2]
        tier == RiskTier(risk_score)
        rec == get_recommendation(d, risk_score)
    IN  Reply(200, Payload(prediction, probability, tier,
                           IF rec.ok THEN rec.val ELSE <<>>),
              st \o <<"risk", "recommend", "jsonify">>)

\* Compose, with the recommendation computed from probability[0].
ComposeOtherScore(d, prediction, probability, st) ==
    LET tier == RiskTier(probability[2])
        rec == get_recommendation(d, probability[1])
    IN  IF ~rec.ok
        THEN Reply(500, ErrorBody(rec.msg, rec.arg), st \o <<"risk", "recommend">>)
        ELSE Reply(200, Payload(prediction, probability, tier, rec.val),
                   st \o <<"risk", "recommend", "jsonify">>)

\* Lines 81-103: tier, recommendation, result, given the classifier output.
Compose(d, prediction, probability, st) ==
    LET risk_score == probability[2]
        tier == RiskTier(risk_score)
        rec == get_recommendation(d, risk_score)
    IN  IF ~rec.ok
        THEN Reply(500, ErrorBody(rec.msg, rec.arg), st \o <<"risk", "recommend">>)
        ELSE Reply(200, Payload(prediction, probability, tier, rec.val),
                   st \o <<"risk", "recommend", "jsonify">>)

\* predict(), with data the parsed body and the two module globals.
predict(d, mdl, scl) ==
    IF ~AllPresent(d)
    THEN Reply(400, ErrorBody("Missing required fields", <<>>), <<"validate">>)
    ELSE
    LET c == Coerce(d) IN
    IF \E i \in DOMAIN c : ~c[i].ok
    THEN Reply(500, ErrorBody(c[FirstFailure(c)].msg, c[FirstFailure(c)].arg),
               <<"validate", "coerce">>)
    ELSE
    LET scaled == transform(scl, Features(c)) IN
    IF ~scaled.ok
    THEN Reply(500, ErrorBody(scaled.msg, scaled.arg),
               <<"validate", "coerce", "transform">>)
    ELSE
    LET prediction == model_predict(mdl, scaled.val) IN
    IF ~prediction.ok
    THEN Reply(500, ErrorBody(prediction.msg, prediction.arg),
               <<"validate", "coerce", "transform", "predict">>)
    ELSE
    LET probability == predict_proba(mdl, scaled.val) IN
    IF ~probability.ok
    THEN Reply(500, ErrorBody(probability.msg, probability.arg),
               <<"validate", "coerce", "transform", "predict", "predict_proba">>)
    ELSE Compose(d, prediction.val, probability.val,
                 <<"validate", "coerce", "transform", "predict", "predict_proba">>)

----------------------------------------------------------------------------
(* Inputs *)

Thresholds == {LowBelow, ModerateBelow, UrgentAbove, ScheduleAbove}

Dist(a, b) == IF a >= b THEN a - b ELSE b - a

\* 0, 1 and the probabilities next to a threshold.
BoundaryScores ==
    {n \in 0..ScoreDen :
        \/ n \in {0, ScoreDen}
        \/ \E c \in Thresholds : Dist(n * 100, c * ScoreDen) <= ScoreProbe * 100}

ScalerErrors ==
    {"X has 12 features, but StandardScaler is expecting 13 features as input.",
     "Input X contains NaN."}

ModelErrors ==
    {"X has 13 features, but RandomForestClassifier is expecting 12 features as input.",
     "This RandomForestClassifier instance is not fitted yet."}

GoodScaler == [raises |-> FALSE, msg |-> "", mean |-> 10]
GoodModels == {[raises |-> FALSE, msg |-> "", p1 |-> n] : n \in BoundaryScores}
BadScalers == {[raises |-> TRUE, msg |-> m, mean |-> 0] : m \in ScalerErrors}
BadModels == {[raises |-> TRUE, msg |-> m, p1 |-> 0] : m \in ModelErrors}

\* What the two pickle.load calls can yield: <<model, scaler>>.
Artifacts ==
    (GoodModels \X {GoodScaler})
        \cup (BadModels \X {GoodScaler})
        \cup ({[raises |-> FALSE, msg |-> "", p1 |-> 0]} \X BadScalers)

BaseRecord ==
    [age |-> Num(450), sex |-> Num(10), cp |-> Num(0), trestbps |-> Num(1200),
     chol |-> Num(2000), fbs |-> Num(0), restecg |-> Num(0),
     thalach |-> Num(1500), exang |-> Num(0), oldpeak |-> Num(5),
     slope |-> Num(10), ca |-> Num(0), thal |-> Num(20)]

Keep == [kind |-> "keep", tenths |-> 0, text |-> <<>>]
Absent == [kind |-> "absent", tenths |-> 0, text |-> <<>>]

EditValues ==
    {Absent, Null, Num(610), Str(<<"a", "b", "c">>), Str(<<"6", "0", ".", "5">>)}

\* The record d with the fields of e edited: removed, or given a new value.
Edit(d, e) ==
    [k \in {f \in DOMAIN d : f \notin DOMAIN e \/ e[f].kind # "absent"} |->
        IF k \in DOMAIN e /\ e[k].kind # "keep" THEN e[k] ELSE d[k]]

VariedFields == {"age", "chol", "exang", "thal"}

\* The empty JSON object; also the value of a body variable not yet assigned.
NoData == <<>>

\* Request bodies: every combination of edits of the varied fields, and every
\* single edit of any field.
Requests ==
    {Edit(BaseRecord, e) : e \in [VariedFields -> EditValues \cup {Keep}]}
        \cup {Edit(BaseRecord, [k \in {f} |-> v]) :
                 f \in FeatureSet, v \in EditValues}
        \cup {NoData}

----------------------------------------------------------------------------
(* Sequential specification: one request at a time *)

NoResponse == [status |-> 0, body |-> <<>>]
NoCall == [fn |-> "", data |-> <<>>, risk_score |-> 0]
NoResult == [ok |-> TRUE, val |-> <<>>, msg |-> "", arg |-> <<>>]
NoLocals ==
    [data |-> <<>>, features |-> <<>>, features_scaled |-> <<>>,
     prediction |-> 0, probability |-> <<>>]

Requesters == 1..NumRequests

\* Module import: the two artifacts are unpickled, nothing else has run.
Loaded ==
    /\ \E a \in Artifacts : model = a[1] /\ scaler = a[2]
    /\ phase = "idle"
    /\ data = NoData
    /\ response = NoResponse
    /\ stages = <<>>
    /\ recIn = NoCall
    /\ recOut = NoResult
    /\ pc = [r \in Requesters |-> "idle"]
    /\ req = [r \in Requesters |-> NoData]
    /\ locals = [r \in Requesters |-> NoLocals]
    /\ out = [r \in Requesters |-> NoResponse]

Init == Loaded

\* POST /api/predict with body d; the handler runs to its return.
Predict ==
    /\ phase = "idle"
    /\ \E d \in Requests :
          LET r == predict(d, model, scaler) IN
          /\ data' = d
          /\ response' = [status |-> r.status, body |-> r.body]
          /\ stages' = r.stages
    /\ phase' = "done"
    /\ UNCHANGED <<model, scaler, recIn, recOut, pc, req, locals, out>>

\* The response is sent and the call frame is discarded.
Respond ==
    /\ phase = "done"
    /\ phase' = "idle"
    /\ data' = NoData
    /\ response' = NoResponse
    /\ stages' = <<>>
    /\ UNCHANGED <<model, scaler, recIn, recOut, pc, req, locals, out>>

Next == Predict \/ Respond

Spec == Init /\ [][Next]_vars

----------------------------------------------------------------------------
(* Direct-call specification: the two pure functions on drawn inputs *)

RuleFields == {"age", "chol", "trestbps", "thalach", "exang"}

Limit(f) ==
    CASE f = "age" -> AgeLimit
      [] f = "chol" -> CholLimit
      [] f = "trestbps" -> BpLimit
      [] f = "thalach" -> HeartRateLimit
      [] f = "exang" -> AnginaYes

\* Offsets from a rule's limit, in tenths: one below, the limit, a half and
\* one above.
Offsets == {-10, 0, 5, 10}

\* The values a rule field is drawn from; Absent leaves the key out.
RuleValues(f) ==
    {Num(Limit(f) * 10 + o) : o \in Offsets}
        \cup {Absent, Str(<<"6", "1">>), Str(<<"6", "0", ".", "5">>)}

RuleRecords ==
    {Edit([f \in RuleFields |-> Num(0)], e) :
        e \in [age : RuleValues("age"), chol : RuleValues("chol"),
               trestbps : RuleValues("trestbps"),
               thalach : RuleValues("thalach"), exang : RuleValues("exang")]}

\* get_recommendation(d, risk_score) is called and returns or raises.
CallRecommend ==
    /\ recIn = NoCall
    /\ \E d \in RuleRecords, s \in BoundaryScores :
          /\ recIn' = [fn |-> "get_recommendation", data |-> d, risk_score |-> s]
          /\ recOut' = get_recommendation(d, s)
    /\ UNCHANGED <<model, scaler, phase, data, response, stages,
                   pc, req, locals, out>>

\* The risk-level branch of predict is evaluated on risk_score.
CallTier ==
    /\ recIn = NoCall
    /\ \E s \in 0..ScoreDen :
          /\ recIn' = [fn |-> "risk_level", data |-> NoData,
                       risk_score |-> s]
          /\ recOut' = [ok |-> TRUE,
                        val |-> <<RiskTier(s).risk_level, RiskTier(s).color,
                                  FinalMessage(s)>>,
                        msg |-> "", arg |-> <<>>]
    /\ UNCHANGED <<model, scaler, phase, data, response, stages,
                   pc, req, locals, out>>

\* The caller drops the result.
ReturnCall ==
    /\ recIn # NoCall
    /\ recIn' = NoCall
    /\ recOut' = NoResult
    /\ UNCHANGED <<model, scaler, phase, data, response, stages,
                   pc, req, locals, out>>

\* Neither function reads the module globals: one pair of artifacts is loaded.
InitCalls == Loaded /\ ~model.raises /\ ~scaler.raises /\ model.p1 = 0

NextCalls == CallRecommend \/ CallTier \/ ReturnCall

SpecCalls == InitCalls /\ [][NextCalls]_vars

----------------------------------------------------------------------------
(* Concurrent specification: requests interleave statement by statement *)

\* Bodies of the concurrent requests.
ConcurrentRequests ==
    {Edit(BaseRecord, [k \in {"age"} |-> v]) :
        v \in {Keep, Absent, Num(610), Str(<<"6", "0", ".", "5">>)}}
        \cup {Edit(BaseRecord, [k \in {"thal"} |-> Str(<<"a", "b", "c">>)])}

\* An assignment to a local variable of the call frame of request r.
SetLocalShared(l, r, name, v) ==
    [q \in DOMAIN l |-> [l[q] EXCEPT ![name] = v]]

SetLocal(l, r, name, v) == [l EXCEPT ![r][name] = v]

\* The request returns <<body, status>>.
Finish(r, status, body) ==
    /\ out' = [out EXCEPT ![r] = [status |-> status, body |-> body]]
    /\ pc' = [pc EXCEPT ![r] = "done"]

\* A request arrives and Flask dispatches it to predict.
Arrive(r) ==
    /\ pc[r] = "idle"
    /\ \E d \in ConcurrentRequests : req' = [req EXCEPT ![r] = d]
    /\ pc' = [pc EXCEPT ![r] = "get_json"]
    /\ UNCHANGED <<model, scaler, phase, data, response, stages, recIn,
                   recOut, locals, out>>

\* data = request.get_json()
GetJson(r) ==
    /\ pc[r] = "get_json"
    /\ locals' = SetLocal(locals, r, "data", req[r])
    /\ pc' = [pc EXCEPT ![r] = "validate"]
    /\ UNCHANGED <<model, scaler, phase, data, response, stages, recIn,
                   recOut, req, out>>

\* if not all(key in data for key in FEATURE_NAMES): return ..., 400
Validate(r) ==
    /\ pc[r] = "validate"
    /\ IF AllPresent(locals[r].data)
       THEN pc' = [pc EXCEPT ![r] = "coerce"] /\ out' = out
       ELSE Finish(r, 400, ErrorBody("Missing required fields", <<>>))
    /\ UNCHANGED <<model, scaler, phase, data, response, stages, recIn,
                   recOut, req, locals>>

\* features = np.array([[float(data[feature]) for feature in FEATURE_NAMES]])
CoerceFeatures(r) ==
    /\ pc[r] = "coerce"
    /\ LET c == Coerce(locals[r].data) IN
       IF \E i \in DOMAIN c : ~c[i].ok
       THEN /\ Finish(r, 500, ErrorBody(c[FirstFailure(c)].msg,
                                        c[FirstFailure(c)].arg))
            /\ locals' = locals
       ELSE /\ locals' = SetLocal(locals, r, "features", Features(c))
            /\ pc' = [pc EXCEPT ![r] = "transform"]
            /\ out' = out
    /\ UNCHANGED <<model, scaler, phase, data, response, stages, recIn,
                   recOut, req>>

\* features_scaled = scaler.transform(features)
Scale(r) ==
    /\ pc[r] = "transform"
    /\ LET scaled == transform(scaler, locals[r].features) IN
       IF ~scaled.ok
       THEN /\ Finish(r, 500, ErrorBody(scaled.msg, scaled.arg))
            /\ locals' = locals
       ELSE /\ locals' = SetLocal(locals, r, "features_scaled", scaled.val)
            /\ pc' = [pc EXCEPT ![r] = "predict"]
            /\ out' = out
    /\ UNCHANGED <<model, scaler, phase, data, response, stages, recIn,
                   recOut, req>>

\* prediction = model.predict(features_scaled)[0]
\* probability = model.predict_proba(features_scaled)[0]
Infer(r) ==
    /\ pc[r] = "predict"
    /\ LET prediction == model_predict(model, locals[r].features_scaled)
           probability == predict_proba(model, locals[r].features_scaled)
       IN  IF ~prediction.ok
           THEN /\ Finish(r, 500, ErrorBody(prediction.msg, prediction.arg))
                /\ locals' = locals
           ELSE IF ~probability.ok
           THEN /\ Finish(r, 500, ErrorBody(probability.msg, probability.arg))
                /\ locals' = locals
           ELSE /\ locals' = SetLocal(SetLocal(locals, r, "prediction",
                                               prediction.val),
                                      r, "probability", probability.val)
                /\ pc' = [pc EXCEPT ![r] = "compose"]
                /\ out' = out
    /\ UNCHANGED <<model, scaler, phase, data, response, stages, recIn,
                   recOut, req>>

\* Lines 81-103: risk level, result dictionary, return jsonify(result), 200
ComposeResult(r) ==
    /\ pc[r] = "compose"
    /\ LET reply == Compose(locals[r].data, locals[r].prediction,
                            locals[r].probability, <<>>)
       IN  Finish(r, reply.status, reply.body)
    /\ UNCHANGED <<model, scaler, phase, data, response, stages, recIn,
                   recOut, req, locals>>

\* The response is sent; the call frame is discarded.
Deliver(r) ==
    /\ pc[r] = "done"
    /\ pc' = [pc EXCEPT ![r] = "idle"]
    /\ req' = [req EXCEPT ![r] = NoData]
    /\ locals' = [locals EXCEPT ![r] = NoLocals]
    /\ out' = [out EXCEPT ![r] = NoResponse]
    /\ UNCHANGED <<model, scaler, phase, data, response, stages, recIn,
                   recOut>>

NextConcurrent ==
    \E r \in Requesters :
        \/ Arrive(r)
        \/ GetJson(r)
        \/ Validate(r)
        \/ CoerceFeatures(r)
        \/ Scale(r)
        \/ Infer(r)
        \/ ComposeResult(r)
        \/ Deliver(r)

SpecConcurrent == Init /\ [][NextConcurrent]_vars

----------------------------------------------------------------------------
(* Properties *)

Last(q) == q[Len(q)]

Done == phase = "done"

FinalMessages == {UrgentMessage, ScheduleMessage, MaintainMessage}

Recommended == recIn.fn = "get_recommendation"

\* Every field of d is present and float() accepts its value.
Coercible(d) == AllPresent(d) /\ \A f \in DOMAIN d : float(d[f]).ok

\* int() accepts the value of every rule field of d.
RuleFieldsIntegral(d) == \A f \in RuleFields : int(Get(d, f)).ok

\* C1: the tier and color are LOW RISK / green iff p1 < 0.33, MODERATE RISK /
\* orange iff 0.33 <= p1 < 0.66, HIGH RISK / red iff p1 >= 0.66, for every
\* p1 in [0, 1]; the three cases exclude one another and cover every score.
C1_TierByThreshold ==
    recIn.fn = "risk_level" =>
        LET s == recIn.risk_score * 100
            tier == <<recOut.val[1], recOut.val[2]>>
        IN  /\ tier = <<"LOW RISK", "green">> <=> s < LowBelow * ScoreDen
            /\ tier = <<"MODERATE RISK", "orange">>
                  <=> (LowBelow * ScoreDen <= s /\ s < ModerateBelow * ScoreDen)
            /\ tier = <<"HIGH RISK", "red">> <=> s >= ModerateBelow * ScoreDen

\* A score of exactly 0.33 was classified, and came out MODERATE RISK.
C1_Witness ==
    /\ recIn.fn = "risk_level"
    /\ recIn.risk_score * 100 = LowBelow * ScoreDen
    /\ recOut.val[1] = "MODERATE RISK"

\* C2: a body with a required field absent gets status 400 'Missing required
\* fields' and only the validation stage runs, whatever the other fields hold.
C2_MissingFieldFirst ==
    (Done /\ \E f \in FeatureSet : f \notin DOMAIN data) =>
        /\ response.status = 400
        /\ response.body = ErrorBody("Missing required fields", <<>>)
        /\ stages = <<"validate">>

\* A body without "chol" and with a non-numeric "age" was answered.
C2_Witness ==
    /\ Done
    /\ "chol" \notin DOMAIN data
    /\ "age" \in DOMAIN data /\ ~float(data["age"]).ok
    /\ response.status = 400

\* C3: a body with all 13 fields, one of which float() rejects, gets a
\* client-error status distinct from the missing-fields and from the
\* inference-failure outcome, and the error names the field.
C3_NonNumericIsClientError ==
    (Done /\ AllPresent(data) /\ ~Coercible(data)) =>
        /\ response.status \in 400..499
        /\ response.body # ErrorBody("Missing required fields", <<>>)
        /\ \E f \in FeatureSet :
              /\ ~float(data[f]).ok
              /\ response.body.error.arg = <<f>>

\* The text the 500 error handler of the application returns.
GenericError == "Internal server error"

\* C4: when the scaler or the classifier rejects a coerced vector, the
\* response is a server error whose text is the generic one, whatever the
\* internal exception says.
C4_InferenceErrorGeneric ==
    (Done /\ Coercible(data) /\ (scaler.raises \/ model.raises)) =>
        /\ response.status = 500
        /\ response.body = ErrorBody(GenericError, <<>>)

\* C5: status 200 with a prediction payload only if validation, coercion,
\* scaling, inference and recommendation all succeeded; otherwise a non-200
\* status and an error body, never a payload.
C5_PayloadOnlyOnSuccess ==
    Done =>
        /\ response.status = 200 =>
              /\ Coercible(data)
              /\ ~scaler.raises
              /\ ~model.raises
              /\ RuleFieldsIntegral(data)
              /\ stages = <<"validate", "coerce", "transform", "predict",
                            "predict_proba", "risk", "recommend", "jsonify">>
        /\ response.status # 200 =>
              /\ response.status \in {400, 500}
              /\ DOMAIN response.body = {"error"}

\* The recommendation stage failed after a successful inference, and the
\* caller got a 500.
C5_Witness ==
    /\ Done
    /\ Coercible(data)
    /\ ~scaler.raises /\ ~model.raises
    /\ ~RuleFieldsIntegral(data)
    /\ response.status = 500

\* The raw value of a field, in tenths; an absent field counts as 0.
Raw(d, f) == float(Get(d, f)).val

\* The list the rules give on the raw values.
RawAdvice(d) ==
    Advise(Raw(d, "age") > AgeLimit * 10, AgeAdvice)
        \o Advise(Raw(d, "chol") > CholLimit * 10, CholAdvice)
        \o Advise(Raw(d, "trestbps") > BpLimit * 10, BpAdvice)
        \o Advise(Raw(d, "thalach") < HeartRateLimit * 10, HeartRateAdvice)
        \o Advise(Raw(d, "exang") = AnginaYes * 10, AnginaAdvice)

\* C6: the list is the advisories of the rules whose condition holds on the
\* raw value, in declaration order, then one final message; also for raw
\* values that are not integers.
C6_RulesOnRawValues ==
    (Recommended /\ recOut.ok) =>
        /\ Len(recOut.val) >= 1
        /\ SubSeq(recOut.val, 1, Len(recOut.val) - 1) = RawAdvice(recIn.data)
        /\ Last(recOut.val) \in FinalMessages

\* C7: exactly one final message closes the list: urgent iff risk_score > 0.7,
\* schedule iff 0.5 < risk_score <= 0.7, maintain iff risk_score <= 0.5.
C7_FinalMessageByThreshold ==
    /\ (Recommended /\ recOut.ok) =>
          LET s == recIn.risk_score * 100
              final == Last(recOut.val)
          IN  /\ final = UrgentMessage <=> s > UrgentAbove * ScoreDen
              /\ final = ScheduleMessage
                    <=> (ScheduleAbove * ScoreDen < s /\ s <= UrgentAbove * ScoreDen)
              /\ final = MaintainMessage <=> s <= ScheduleAbove * ScoreDen
              /\ Cardinality({i \in DOMAIN recOut.val :
                                 recOut.val[i] \in FinalMessages}) = 1
    /\ recIn.fn = "risk_level" =>
          LET s == recIn.risk_score * 100
              final == recOut.val[3]
          IN  /\ final = UrgentMessage <=> s > UrgentAbove * ScoreDen
              /\ final = ScheduleMessage
                    <=> (ScheduleAbove * ScoreDen < s /\ s <= UrgentAbove * ScoreDen)
              /\ final = MaintainMessage <=> s <= ScheduleAbove * ScoreDen

\* get_recommendation returned for a score of exactly 0.7, with the
\* schedule-evaluation message last.
C7_Witness ==
    /\ Recommended
    /\ recOut.ok
    /\ recIn.risk_score * 100 = UrgentAbove * ScoreDen
    /\ Last(recOut.val) = ScheduleMessage

\* C8: get_recommendation never raises and returns at least one string, for
\* every record whose present values float() accepts (numbers or text) and
\* whose absent fields count as 0.
C8_RecommendationTotal ==
    (Recommended /\ \A f \in DOMAIN recIn.data : float(recIn.data[f]).ok) =>
        /\ recOut.ok
        /\ Len(recOut.val) >= 1

\* C9: a request running among other requests gets the response it would get
\* alone from the loaded model and scaler, so requests with the same body get
\* the same response.
C9_ResponseAsIfAlone ==
    /\ \A r \in Requesters :
          pc[r] = "done" =>
              LET alone == predict(req[r], model, scaler)
              IN  out[r] = [status |-> alone.status, body |-> alone.body]
    /\ \A r1, r2 \in Requesters :
          (pc[r1] = "done" /\ pc[r2] = "done" /\ req[r1] = req[r2])
              => out[r1] = out[r2]

\* Two requests with different bodies overlapped and both got a payload.
C9_Witness ==
    \E r1, r2 \in Requesters :
        /\ pc[r1] = "done" /\ pc[r2] = "done"
        /\ req[r1] # req[r2]
        /\ out[r1].status = 200 /\ out[r2].status = 200
        /\ out[r1].body # out[r2].body

\* C10: in a 200 response the tier and the final message come from
\* risk_probability; the urgent message appears only with HIGH RISK, and
\* LOW RISK always comes with the maintain message.
C10_TierMessageConsistent ==
    (Done /\ response.status = 200) =>
        LET b == response.body
            final == Last(b.recommendation)
            s == b.risk_probability * 100
        IN  /\ s = model.p1 * 100
            /\ b.risk_level = "LOW RISK" <=> s < LowBelow * ScoreDen
            /\ b.risk_level = "HIGH RISK" <=> s >= ModerateBelow * ScoreDen
            /\ final = UrgentMessage <=> s > UrgentAbove * ScoreDen
            /\ final = MaintainMessage <=> s <= ScheduleAbove * ScoreDen
            /\ final = UrgentMessage => b.risk_level = "HIGH RISK"
            /\ b.risk_level = "LOW RISK" => final = MaintainMessage

\* The converse fails: a HIGH RISK response carries the schedule message.
C10_Witness ==
    /\ Done
    /\ response.status = 200
    /\ response.body.risk_level = "HIGH RISK"
    /\ Last(response.body.recommendation) = ScheduleMessage

====
